---- MODULE Spec2Model ----
\* KismetParser (src/kismetParser.py): the device aggregation engine.
\* addFile() appends decoded EKJSON records to self.devices, parse() walks them
\* in input order and dispatches each to _processBluetooth, _processWirelessAp
\* or _processWirelessClient, which upsert into one dictionary per device class.
EXTENDS Integers, Sequences, FiniteSets, TLC

\* ------------------------------------------------------------------ text
\* A Python str is the sequence of its code points.
S_a1 == <<97, 49>>                \* "a1"
S_A1 == <<65, 49>>                \* "A1"
S_b2 == <<98, 50>>                \* "b2"
S_m == <<109>>                    \* "m"
S_q == <<113>>                    \* "q"
S_n == <<110>>                    \* "n"
S_p == <<112>>                    \* "p"
S_s == <<115>>                    \* "s"
S_t == <<116>>                    \* "t"
S_x == <<120>>                    \* "x", no integer literal
S_12 == <<49, 50>>                \* "12", an integer literal
S_Empty == <<>>
S_None == <<78, 111, 110, 101>>   \* str(None)
S_none == <<110, 111, 110, 101>>  \* "none"
S_NONE == <<78, 79, 78, 69>>      \* "NONE"
S_Unknown == <<85, 110, 107, 110, 111, 119, 110>>
S_UnknownSSID == <<85, 110, 107, 110, 111, 119, 110, 32, 83, 83, 73, 68>>
S_BTLE == <<66, 84, 76, 69>>
S_WiFiAP == <<87, 105, 45, 70, 105, 32, 65, 80>>
S_WiFiClient == <<87, 105, 45, 70, 105, 32, 67, 108, 105, 101, 110, 116>>
S_Zigbee == <<90, 105, 103, 98, 101, 101>>
S_dbm == <<100, 98, 109>>
S_U1 == <<85, 49>>                \* "U1"
S_EpochDay == <<49, 57, 55, 48, 45, 48, 49, 45, 48, 49>>   \* "1970-01-01"

\* str.upper() / str.lower() on ASCII text.
UpperChar(c) == IF c >= 97 /\ c <= 122 THEN c - 32 ELSE c
LowerChar(c) == IF c >= 65 /\ c <= 90 THEN c + 32 ELSE c
RECURSIVE Upper(_)
Upper(s) == IF Len(s) = 0 THEN <<>> ELSE <<UpperChar(Head(s))>> \o Upper(Tail(s))
RECURSIVE Lower(_)
Lower(s) == IF Len(s) = 0 THEN <<>> ELSE <<LowerChar(Head(s))>> \o Lower(Tail(s))

IsDigit(c) == c >= 48 /\ c <= 57

RECURSIVE DigitsValue(_)
DigitsValue(s) ==
    IF Len(s) = 0 THEN 0
    ELSE 10 * DigitsValue(SubSeq(s, 1, Len(s) - 1)) + (s[Len(s)] - 48)

RECURSIVE NatToStr(_)
NatToStr(n) ==
    IF n < 10 THEN <<48 + n>>
    ELSE Append(NatToStr(n \div 10), 48 + (n % 10))

\* str(n) for an int n.
IntToStr(n) == IF n < 0 THEN <<45>> \o NatToStr(-n) ELSE NatToStr(n)

\* abs(n)
Abs(n) == IF n < 0 THEN -n ELSE n

\* ------------------------------------------------------------ JSON values
\* What json.loads() puts under a key: nothing (the key is absent), None, a str
\* or an int.
Absent == [k |-> "absent", s |-> <<>>, n |-> 0]
JNull == [k |-> "null", s |-> <<>>, n |-> 0]
JStr(str) == [k |-> "str", s |-> str, n |-> 0]
JInt(num) == [k |-> "int", s |-> <<>>, n |-> num]

\* A nested mapping is absent, None ("null") or an object ("obj") with its keys.
\* device['kismet_device_base_signal']
Signal(type, max) == [k |-> "obj", type |-> type, max_signal |-> max]
NoSignal(kind) == [k |-> kind, type |-> Absent, max_signal |-> Absent]
\* ['dot11.device.last_beaconed_ssid_record'], ['dot11.device.last_probed_ssid_record']
SsidRecord(ssid) == [k |-> "obj", ssid |-> ssid]
NoSsidRecord(kind) == [k |-> kind, ssid |-> Absent]
\* device['dot11_device']
Dot11(bssid, beacon, probed) ==
    [k |-> "obj", last_bssid |-> bssid, beacon |-> beacon, probed |-> probed]
NoDot11(kind) ==
    [k |-> kind, last_bssid |-> Absent, beacon |-> NoSsidRecord("absent"),
     probed |-> NoSsidRecord("absent")]

\* str(v) of a present value.
PyStr(v) ==
    CASE v.k = "str" -> v.s
      [] v.k = "int" -> IntToStr(v.n)
      [] OTHER -> S_None

\* The text int() accepts: an optional sign and one or more digits (white
\* space around it and underscores between digits are left out).
IsIntLiteral(s) ==
    LET body == IF Len(s) > 0 /\ s[1] \in {43, 45} THEN Tail(s) ELSE s
    IN Len(body) > 0 /\ \A k \in 1..Len(body) : IsDigit(body[k])

\* int(v) returns (it raises TypeError on None and ValueError on other text).
PyIntOk(v) == v.k = "int" \/ (v.k = "str" /\ IsIntLiteral(v.s))

PyInt(v) ==
    IF v.k = "int" THEN v.n
    ELSE IF v.s[1] = 45 THEN -DigitsValue(Tail(v.s))
    ELSE IF v.s[1] = 43 THEN DigitsValue(Tail(v.s))
    ELSE DigitsValue(v.s)

\* bool(v) of a present value.
Truthy(v) ==
    CASE v.k = "str" -> Len(v.s) > 0
      [] v.k = "int" -> v.n # 0
      [] OTHER -> FALSE

\* ------------------------------------------------------------- warnings
\* logger.warning(...) calls; a log line is the message and, for a conflict,
\* the address the f-string names.
Warn(msg) == [msg |-> msg, mac |-> <<>>]
WarnInvalidBluetooth == Warn("Invalid bluetooth device record specified")
WarnInvalidAp == Warn("Invalid wireless access point device record specified")
WarnInvalidClient == Warn("Invalid wireless client device record specified")
WarnNoMac == Warn("Device without MAC address detected")
WarnConflict(mac) == [msg |-> "Conflicting information for", mac |-> mac]
WarnUnrecognised == Warn("Device of unrecognised type detected")
WarnNoBluetooth == Warn("No bluetooth devices to report on")
WarnNoAps == Warn("No wireless access point devices to report on")
WarnNoClients == Warn("No wireless client devices to report on")

\* ------------------------------------------------------------ extraction
\* The value meaning "no usable signal reading".
NoRssi == 5000

\* `if not x or x is None: x = default`
OrDefault(s, default) == IF Len(s) = 0 THEN default ELSE s

\* self.store[mac] = entry
Put(store, mac, entry) ==
    [m \in DOMAIN store \cup {mac} |-> IF m = mac THEN entry ELSE store[m]]

\* The try block over kismet_device_base_signal: 5000 when the type reads
\* "none" or any lookup or int() raises, else int(max_signal).
SignalRssi(device) ==
    LET sig == device.signal IN
    IF sig.k # "obj" \/ sig.type.k = "absent" THEN NoRssi
    ELSE IF Lower(PyStr(sig.type)) = S_none THEN NoRssi
    ELSE IF sig.max_signal.k = "absent" \/ ~PyIntOk(sig.max_signal) THEN NoRssi
    ELSE PyInt(sig.max_signal)

\* The coercions every class starts with.
Mac(device) == Upper(PyStr(device.macaddr))
FirstTime(device) == PyInt(device.first_time)
LastTime(device) == PyInt(device.last_time)
Manufacturer(device) == OrDefault(PyStr(device.manuf), S_Unknown)

\* ------------------------------------------------------ _processBluetooth
\* As BluetoothTryRaises, with the name lookup left out of the try block.
BluetoothTryRaisesNameUnchecked(device) ==
    \/ device.macaddr.k = "absent"
    \/ ~PyIntOk(device.first_time)
    \/ ~PyIntOk(device.last_time)
    \/ device.manuf.k = "absent"

\* The first try block raises (KeyError, TypeError, ValueError).
BluetoothTryRaises(device) ==
    \/ device.macaddr.k = "absent"
    \/ ~PyIntOk(device.first_time)
    \/ ~PyIntOk(device.last_time)
    \/ device.manuf.k = "absent"
    \/ device.name.k = "absent"

Name(device) == OrDefault(PyStr(device.name), S_Unknown)

\* The values the function holds once the defaults are applied.
BluetoothFields(device) ==
    [mac |-> Mac(device),
     firstTime |-> FirstTime(device),
     lastTime |-> LastTime(device),
     manufacturer |-> Manufacturer(device),
     name |-> Name(device),
     rssi |-> NoRssi]

BluetoothConflict(old, f) ==
    f.manufacturer # old.manufacturer \/ f.name # old.name

\* As MergeBluetooth, with firstTime overwritten instead of min().
MergeBluetoothOverwrite(old, f) ==
    [old EXCEPT !.firstTime = f.firstTime,
                !.lastTime = IF f.lastTime > old.lastTime THEN f.lastTime ELSE old.lastTime]

\* The branch `if mac in self.bluetoothDevices.keys()`.
MergeBluetooth(old, f) ==
    [old EXCEPT !.firstTime = IF f.firstTime < old.firstTime THEN f.firstTime ELSE old.firstTime,
                !.lastTime = IF f.lastTime > old.lastTime THEN f.lastTime ELSE old.lastTime]

NewBluetooth(f) ==
    [firstTime |-> f.firstTime, lastTime |-> f.lastTime,
     manufacturer |-> f.manufacturer, name |-> f.name, rssi |-> f.rssi]

\* The whole call: the store afterwards and the warnings logged.
ProcessBluetooth(store, device) ==
    IF BluetoothTryRaises(device)
    THEN [store |-> store, warn |-> <<WarnInvalidBluetooth>>]
    ELSE LET f == BluetoothFields(device) IN
         IF Len(f.mac) = 0 THEN [store |-> store, warn |-> <<WarnNoMac>>]
         ELSE IF f.mac \in DOMAIN store
         THEN [store |-> Put(store, f.mac, MergeBluetooth(store[f.mac], f)),
               warn |-> IF BluetoothConflict(store[f.mac], f)
                        THEN <<WarnConflict(f.mac)>> ELSE <<>>]
         ELSE [store |-> Put(store, f.mac, NewBluetooth(f)), warn |-> <<>>]

\* ----------------------------------------------------- _processWirelessAp
EssidPathRaises(device) ==
    \/ device.dot11.k # "obj"
    \/ device.dot11.beacon.k # "obj"
    \/ device.dot11.beacon.ssid.k = "absent"

ApTryRaises(device) ==
    \/ device.macaddr.k = "absent"
    \/ ~PyIntOk(device.first_time)
    \/ ~PyIntOk(device.last_time)
    \/ device.manuf.k = "absent"
    \/ ~PyIntOk(device.channel)
    \/ device.crypt.k = "absent"
    \/ EssidPathRaises(device)

Channel(device) == PyInt(device.channel)
Auth(device) == OrDefault(PyStr(device.crypt), S_Unknown)
Essid(device) == OrDefault(PyStr(device.dot11.beacon.ssid), S_UnknownSSID)

ApFields(device) ==
    [mac |-> Mac(device),
     firstTime |-> FirstTime(device),
     lastTime |-> LastTime(device),
     manufacturer |-> Manufacturer(device),
     channel |-> Channel(device),
     auth |-> Auth(device),
     essid |-> Essid(device),
     rssi |-> SignalRssi(device)]

ApConflict(old, f) ==
    \/ f.manufacturer # old.manufacturer
    \/ f.essid # old.essid
    \/ f.channel # old.channel
    \/ f.auth # old.auth

\* As BestRssi, with <= for <.
BestRssiOrEqual(rssi, old) == IF Abs(rssi) <= Abs(old) THEN rssi ELSE old

\* rssi if abs(rssi) < abs(new['rssi']) else new['rssi']
BestRssi(rssi, old) == IF Abs(rssi) < Abs(old) THEN rssi ELSE old

\* As MergeAp, with the record's metadata written over the entry's.
MergeApLastWins(old, f) ==
    [old EXCEPT !.firstTime = IF f.firstTime < old.firstTime THEN f.firstTime ELSE old.firstTime,
                !.lastTime = IF f.lastTime > old.lastTime THEN f.lastTime ELSE old.lastTime,
                !.rssi = BestRssi(f.rssi, old.rssi),
                !.manufacturer = f.manufacturer, !.channel = f.channel,
                !.auth = f.auth, !.essid = f.essid]

MergeAp(old, f) ==
    [old EXCEPT !.firstTime = IF f.firstTime < old.firstTime THEN f.firstTime ELSE old.firstTime,
                !.lastTime = IF f.lastTime > old.lastTime THEN f.lastTime ELSE old.lastTime,
                !.rssi = BestRssi(f.rssi, old.rssi)]

NewAp(f) ==
    [firstTime |-> f.firstTime, lastTime |-> f.lastTime,
     manufacturer |-> f.manufacturer, channel |-> f.channel, auth |-> f.auth,
     essid |-> f.essid, rssi |-> f.rssi]

ProcessWirelessAp(store, device) ==
    IF ApTryRaises(device)
    THEN [store |-> store, warn |-> <<WarnInvalidAp>>]
    ELSE LET f == ApFields(device) IN
         IF Len(f.mac) = 0 THEN [store |-> store, warn |-> <<WarnNoMac>>]
         ELSE IF f.mac \in DOMAIN store
         THEN [store |-> Put(store, f.mac, MergeAp(store[f.mac], f)),
               warn |-> IF ApConflict(store[f.mac], f)
                        THEN <<WarnConflict(f.mac)>> ELSE <<>>]
         ELSE [store |-> Put(store, f.mac, NewAp(f)), warn |-> <<>>]

\* ------------------------------------------------- _processWirelessClient
\* The lookups of the optional last-probed-SSID record raise.
ProbedPathRaises(device) ==
    /\ device.dot11.probed.k # "absent"
    /\ \/ device.dot11.probed.k # "obj"
       \/ device.dot11.probed.ssid.k = "absent"

ClientTryRaises(device) ==
    \/ device.macaddr.k = "absent"
    \/ ~PyIntOk(device.first_time)
    \/ ~PyIntOk(device.last_time)
    \/ device.manuf.k = "absent"
    \/ device.dot11.k # "obj"
    \/ device.dot11.last_bssid.k = "absent"
    \/ ProbedPathRaises(device)

\* The list probedSsids the try block builds: empty, or one element.
ProbedList(device) ==
    IF device.dot11.probed.k = "absent" THEN <<>>
    ELSE IF Truthy(device.dot11.probed.ssid)
    THEN <<PyStr(device.dot11.probed.ssid)>>
    ELSE <<S_UnknownSSID>>

Bssid(device) == OrDefault(PyStr(device.dot11.last_bssid), S_Unknown)

ClientFields(device) ==
    [mac |-> Mac(device),
     firstTime |-> FirstTime(device),
     lastTime |-> LastTime(device),
     manufacturer |-> Manufacturer(device),
     bssid |-> Bssid(device),
     probedSsids |-> ProbedList(device),
     rssi |-> SignalRssi(device)]

ClientConflict(old, f) ==
    f.manufacturer # old.manufacturer \/ f.bssid # old.bssid

Range(seq) == {seq[k] : k \in 1..Len(seq)}

\* As ProbedUnion, with the entry's list dropped.
ProbedReplace(new, old) == Range(new)

\* set(probedSsids + new['probedSsids'])
ProbedUnion(new, old) == Range(new \o old)

\* list(a set): its elements, each once, in an order the language leaves open.
ListsOf(S) ==
    {l \in [1..Cardinality(S) -> S] : \A x \in S : \E k \in 1..Cardinality(S) : l[k] = x}

\* `ssids` is the list that list(set(...)) returned.
MergeClient(old, f, ssids) ==
    [old EXCEPT !.firstTime = IF f.firstTime < old.firstTime THEN f.firstTime ELSE old.firstTime,
                !.lastTime = IF f.lastTime > old.lastTime THEN f.lastTime ELSE old.lastTime,
                !.probedSsids = ssids,
                !.rssi = BestRssi(f.rssi, old.rssi)]

NewClient(f) ==
    [firstTime |-> f.firstTime, lastTime |-> f.lastTime,
     manufacturer |-> f.manufacturer, bssid |-> f.bssid,
     probedSsids |-> f.probedSsids, rssi |-> f.rssi]

\* Whether the call reaches the merge branch.
ClientMerges(store, device) ==
    /\ ~ClientTryRaises(device)
    /\ Len(ClientFields(device).mac) > 0
    /\ ClientFields(device).mac \in DOMAIN store

ProcessWirelessClient(store, device, ssids) ==
    IF ClientTryRaises(device)
    THEN [store |-> store, warn |-> <<WarnInvalidClient>>]
    ELSE LET f == ClientFields(device) IN
         IF Len(f.mac) = 0 THEN [store |-> store, warn |-> <<WarnNoMac>>]
         ELSE IF f.mac \in DOMAIN store
         THEN [store |-> Put(store, f.mac, MergeClient(store[f.mac], f, ssids)),
               warn |-> IF ClientConflict(store[f.mac], f)
                        THEN <<WarnConflict(f.mac)>> ELSE <<>>]
         ELSE [store |-> Put(store, f.mac, NewClient(f)), warn |-> <<>>]

\* The lists list(set(...)) may return for this call (one dummy when the call
\* does not reach the merge).
SsidOrders(store, device) ==
    IF ClientMerges(store, device)
    THEN ListsOf(ProbedUnion(ClientFields(device).probedSsids,
                             store[ClientFields(device).mac].probedSsids))
    ELSE {<<>>}

\* ---------------------------------------------------------------- report
\* A row is the list of its cells; a cell is a str or an int, as the JSON
\* values are.

\* The signal strength above which a reading is shown as "Unknown".
MaxRssi == 255

TwoDigits(n) == <<48 + (n \div 10), 48 + (n % 10)>>

\* datetime.fromtimestamp(epoch).strftime('%Y-%m-%d %H:%M:%S') on a clock set
\* to UTC, for an epoch within the first day (0 <= epoch < 86400).
EpochToDatetime(epoch) ==
    S_EpochDay \o <<32>> \o TwoDigits(epoch \div 3600) \o <<58>>
        \o TwoDigits((epoch % 3600) \div 60) \o <<58>> \o TwoDigits(epoch % 60)

\* ', '.join(list)
RECURSIVE Join(_)
Join(list) ==
    IF Len(list) = 0 THEN <<>>
    ELSE IF Len(list) = 1 THEN list[1]
    ELSE list[1] \o <<44, 32>> \o Join(Tail(list))

\* The last cell: "Unknown" if abs(rssi) > 255, else the int itself.
RssiCell(rssi) == IF Abs(rssi) > MaxRssi THEN JStr(S_Unknown) ELSE JInt(rssi)

BluetoothRow(mac, e) ==
    <<JStr(mac), JStr(EpochToDatetime(e.firstTime)), JStr(EpochToDatetime(e.lastTime)),
      JStr(e.manufacturer), JStr(e.name), RssiCell(e.rssi)>>

ApRow(mac, e) ==
    <<JStr(mac), JStr(EpochToDatetime(e.firstTime)), JStr(EpochToDatetime(e.lastTime)),
      JStr(e.manufacturer), JInt(e.channel), JStr(e.auth), JStr(e.essid),
      RssiCell(e.rssi)>>

ClientRow(mac, e) ==
    <<JStr(mac), JStr(EpochToDatetime(e.firstTime)), JStr(EpochToDatetime(e.lastTime)),
      JStr(e.manufacturer), JStr(e.bssid), JStr(Join(e.probedSsids)),
      RssiCell(e.rssi)>>

\* Comparison of two str values: by code point, a proper prefix first.
RECURSIVE StrLess(_, _)
StrLess(a, b) ==
    IF Len(b) = 0 THEN FALSE
    ELSE IF Len(a) = 0 THEN TRUE
    ELSE IF a[1] # b[1] THEN a[1] < b[1]
    ELSE StrLess(Tail(a), Tail(b))

\* As SortKey, with the two cells joined without the space.
SortKeyNoSeparator(x) == PyStr(x[Len(x)]) \o PyStr(x[1])

\* key=lambda x: f"{x[-1]} {x[0]}"
SortKey(x) == PyStr(x[Len(x)]) \o <<32>> \o PyStr(x[1])

\* list.sort(key=...) is stable: a row goes before the first row whose key is
\* greater than its own.
InsertRow(sorted, x) ==
    LET later == {k \in 1..Len(sorted) : StrLess(SortKey(x), SortKey(sorted[k]))}
        at == IF later = {} THEN Len(sorted) + 1
              ELSE CHOOSE k \in later : \A j \in later : k <= j
    IN SubSeq(sorted, 1, at - 1) \o <<x>> \o SubSeq(sorted, at, Len(sorted))

RECURSIVE SortRows(_)
SortRows(rows) ==
    IF Len(rows) = 0 THEN <<>>
    ELSE InsertRow(SortRows(SubSeq(rows, 1, Len(rows) - 1)), rows[Len(rows)])

\* The rows a _report function hands to tabulate(): one per key, taken in the
\* order `keys` (the dictionary's), then sorted.  No row when the store is
\* empty: the function returns before it opens a file.
BluetoothRows(store, keys) ==
    SortRows([k \in 1..Len(keys) |-> BluetoothRow(keys[k], store[keys[k]])])
ApRows(store, keys) ==
    SortRows([k \in 1..Len(keys) |-> ApRow(keys[k], store[keys[k]])])
ClientRows(store, keys) ==
    SortRows([k \in 1..Len(keys) |-> ClientRow(keys[k], store[keys[k]])])

\* The warning of a _report function that finds its store empty.
NothingToReport(store, warning) == IF DOMAIN store = {} THEN <<warning>> ELSE <<>>

\* ------------------------------------------------------------- the input
\* The records the input files may hold. A run draws its records from one
\* family: valid records of one class that share addresses (the merge cases),
\* or one class's records with a single field absent, None, empty or of the
\* wrong type (the extraction cases), or records of several addresses whose
\* signal strengths are texts of different lengths (the report cases).
MaxDevices == 3
MaxFaultDevices == 2

BaseBluetooth ==
    [type |-> JStr(S_BTLE), macaddr |-> JStr(S_a1),
     first_time |-> JInt(2), last_time |-> JInt(3),
     manuf |-> JStr(S_m), name |-> JStr(S_n),
     channel |-> Absent, crypt |-> Absent,
     dot11 |-> NoDot11("absent"),
     signal |-> Signal(JStr(S_dbm), JInt(-40))]

BaseAp ==
    [type |-> JStr(S_WiFiAP), macaddr |-> JStr(S_a1),
     first_time |-> JInt(2), last_time |-> JInt(3),
     manuf |-> JStr(S_m), name |-> Absent,
     channel |-> JInt(6), crypt |-> JStr(S_p),
     dot11 |-> Dot11(Absent, SsidRecord(JStr(S_s)), NoSsidRecord("absent")),
     signal |-> Signal(JStr(S_dbm), JInt(-70))]

BaseClient ==
    [type |-> JStr(S_WiFiClient), macaddr |-> JStr(S_a1),
     first_time |-> JInt(2), last_time |-> JInt(3),
     manuf |-> JStr(S_m), name |-> Absent,
     channel |-> Absent, crypt |-> Absent,
     dot11 |-> Dot11(JStr(S_q), NoSsidRecord("absent"), NoSsidRecord("absent")),
     signal |-> Signal(JStr(S_dbm), JInt(-70))]

\* Valid records of one class: three that share an address (one written in
\* lower case, one in upper case, one whose first time is after its last), one
\* of another address, and records that differ from the base in one field.
Earlier(base) ==
    [base EXCEPT !.macaddr = JStr(S_A1), !.first_time = JInt(1), !.last_time = JInt(5)]
Reversed(base) == [base EXCEPT !.first_time = JInt(4), !.last_time = JInt(1)]
Other(base) == [base EXCEPT !.macaddr = JStr(S_b2)]

MergeBluetoothPool ==
    {BaseBluetooth, Earlier(BaseBluetooth), Reversed(BaseBluetooth),
     Other(BaseBluetooth),
     [BaseBluetooth EXCEPT !.manuf = JStr(S_Empty)],
     [BaseBluetooth EXCEPT !.name = JStr(S_p)],
     BaseAp, BaseClient}

MergeApPool ==
    {BaseAp, Earlier(BaseAp), Reversed(BaseAp), Other(BaseAp),
     [BaseAp EXCEPT !.signal = Signal(JStr(S_dbm), JInt(-40))],
     [BaseAp EXCEPT !.signal = Signal(JStr(S_dbm), JInt(40))],
     [BaseAp EXCEPT !.signal = Signal(JStr(S_none), JInt(-20))],
     [BaseAp EXCEPT !.manuf = JStr(S_q)],
     [BaseAp EXCEPT !.channel = JInt(11)],
     [BaseAp EXCEPT !.crypt = JStr(S_Empty)],
     [BaseAp EXCEPT !.dot11.beacon = SsidRecord(JStr(S_Empty))]}

MergeClientPool ==
    {BaseClient, Earlier(BaseClient), Reversed(BaseClient),
     [Other(BaseClient) EXCEPT !.manuf = JStr(S_Empty)],
     [BaseClient EXCEPT !.dot11.probed = SsidRecord(JStr(S_s))],
     [Earlier(BaseClient) EXCEPT !.dot11.probed = SsidRecord(JStr(S_s))],
     [BaseClient EXCEPT !.dot11.probed = SsidRecord(JStr(S_t))],
     [BaseClient EXCEPT !.dot11.probed = SsidRecord(JStr(S_Empty))],
     [BaseClient EXCEPT !.signal = Signal(JStr(S_dbm), JInt(-40))],
     [BaseClient EXCEPT !.signal = Signal(JStr(S_NONE), JInt(-20))],
     [BaseClient EXCEPT !.dot11.last_bssid = JStr(S_p)]}

\* One field of a record made absent, None, empty, or text where a number is due.
Empties == {Absent, JNull, JStr(S_Empty)}
NotNumbers == {Absent, JNull, JStr(S_x), JStr(S_12)}
Signals ==
    {NoSignal("absent"), NoSignal("null"),
     Signal(Absent, JInt(-40)), Signal(JNull, JInt(-40)),
     Signal(JStr(S_none), JInt(-40)), Signal(JStr(S_NONE), JInt(-40)),
     Signal(JStr(S_dbm), Absent), Signal(JStr(S_dbm), JStr(S_x)),
     Signal(JStr(S_dbm), JStr(S_12))}
SsidRecords ==
    {NoSsidRecord("absent"), NoSsidRecord("null")}
    \cup {SsidRecord(v) : v \in Empties \cup {JInt(7)}}

FaultBluetoothPool ==
    {BaseBluetooth, Other(BaseBluetooth)}
    \cup {[BaseBluetooth EXCEPT !.macaddr = v] : v \in Empties}
    \cup {[BaseBluetooth EXCEPT !.first_time = v] : v \in NotNumbers}
    \cup {[BaseBluetooth EXCEPT !.last_time = v] : v \in NotNumbers}
    \cup {[BaseBluetooth EXCEPT !.manuf = v] : v \in Empties}
    \cup {[BaseBluetooth EXCEPT !.name = v] : v \in Empties}
    \cup {[BaseBluetooth EXCEPT !.signal = v] :
            v \in {NoSignal("absent"), Signal(JStr(S_none), JInt(-40))}}
    \cup {[BaseBluetooth EXCEPT !.type = v] :
            v \in {Absent, JNull, JInt(7), JStr(S_Zigbee)}}

FaultApPool ==
    {BaseAp, Other(BaseAp)}
    \cup {[BaseAp EXCEPT !.macaddr = v] : v \in Empties}
    \cup {[BaseAp EXCEPT !.manuf = v] : v \in Empties}
    \cup {[BaseAp EXCEPT !.channel = v] : v \in NotNumbers}
    \cup {[BaseAp EXCEPT !.crypt = v] : v \in Empties}
    \cup {[BaseAp EXCEPT !.dot11 = NoDot11(kind)] : kind \in {"absent", "null"}}
    \cup {[BaseAp EXCEPT !.dot11.beacon = v] : v \in SsidRecords}
    \cup {[BaseAp EXCEPT !.type = v] : v \in {Absent, JStr(S_Zigbee)}}

FaultClientPool ==
    {BaseClient, Other(BaseClient)}
    \cup {[BaseClient EXCEPT !.macaddr = v] : v \in Empties}
    \cup {[BaseClient EXCEPT !.last_time = v] : v \in {JNull, JStr(S_12)}}
    \cup {[BaseClient EXCEPT !.manuf = v] : v \in Empties}
    \cup {[BaseClient EXCEPT !.dot11 = NoDot11(kind)] : kind \in {"absent", "null"}}
    \cup {[BaseClient EXCEPT !.dot11.last_bssid = v] : v \in Empties}
    \cup {[BaseClient EXCEPT !.dot11.probed = v] : v \in SsidRecords}
    \cup {[BaseClient EXCEPT !.type = v] : v \in {Absent, JStr(S_Zigbee)}}

\* Records of the two classes that read the signal, with its structure varied.
FaultSignalPool ==
    {BaseAp, BaseClient, BaseBluetooth}
    \cup {[BaseAp EXCEPT !.signal = v] : v \in Signals}
    \cup {[BaseClient EXCEPT !.signal = v] : v \in Signals}

\* Three addresses per class: one with signal -70, one with -7, one without a
\* usable reading.
Quiet(base) ==
    [base EXCEPT !.macaddr = JStr(S_b2), !.signal = Signal(JStr(S_dbm), JInt(-7))]
Unheard(base) ==
    [base EXCEPT !.macaddr = JStr(S_U1), !.signal = Signal(JStr(S_none), JInt(-20))]

ReportPool ==
    {BaseAp, Quiet(BaseAp), Unheard(BaseAp),
     BaseClient, Quiet(BaseClient), Unheard(BaseClient),
     BaseBluetooth, Quiet(BaseBluetooth)}

Families ==
    {"merge bluetooth", "merge ap", "merge client",
     "fault bluetooth", "fault ap", "fault client", "fault signal", "report"}

Pool(f) ==
    CASE f = "merge bluetooth" -> MergeBluetoothPool
      [] f = "merge ap" -> MergeApPool
      [] f = "merge client" -> MergeClientPool
      [] f = "fault bluetooth" -> FaultBluetoothPool
      [] f = "fault ap" -> FaultApPool
      [] f = "fault client" -> FaultClientPool
      [] f = "fault signal" -> FaultSignalPool
      [] OTHER -> ReportPool

Limit(f) ==
    IF f \in {"merge bluetooth", "merge ap", "merge client", "report"}
    THEN MaxDevices ELSE MaxFaultDevices

\* ------------------------------------------------------------- the state
VARIABLES
    family,            \* the family the run's records come from
    devices,           \* self.devices
    bluetoothDevices,  \* self.bluetoothDevices
    wirelessAps,       \* self.wirelessAps
    wirelessClients,   \* self.wirelessClients
    log,               \* the warnings logged so far
    pc,                \* "add", "parse", "parsed", "reported" or "crashed"
    i,                 \* parse(): the index of the record the loop is at
    last,              \* the index of the record the last step handled (0: none)
    prev,              \* the stores and the log as they were before that record
    reports            \* the rows written to each class's output file

vars ==
    <<family, devices, bluetoothDevices, wirelessAps, wirelessClients, log, pc,
      i, last, prev, reports>>

Snapshot ==
    [bluetoothDevices |-> bluetoothDevices, wirelessAps |-> wirelessAps,
     wirelessClients |-> wirelessClients, log |-> log]

\* KismetParser.__init__
Init ==
    /\ family \in Families
    /\ devices = <<>>
    /\ bluetoothDevices = <<>>
    /\ wirelessAps = <<>>
    /\ wirelessClients = <<>>
    /\ log = <<>>
    /\ pc = "add"
    /\ i = 1
    /\ last = 0
    /\ prev = [bluetoothDevices |-> <<>>, wirelessAps |-> <<>>,
               wirelessClients |-> <<>>, log |-> <<>>]
    /\ reports = [bluetooth |-> <<>>, ap |-> <<>>, client |-> <<>>]

\* addFile(): self.devices.append(json.loads(line))
AddFile ==
    /\ pc = "add"
    /\ Len(devices) < Limit(family)
    /\ \E device \in Pool(family) : devices' = Append(devices, device)
    /\ UNCHANGED <<family, bluetoothDevices, wirelessAps, wirelessClients, log,
                   pc, i, last, prev, reports>>

\* main(): every file is added, then kp.parse() starts its loop.
StartParse ==
    /\ pc = "add"
    /\ pc' = "parse"
    /\ UNCHANGED <<family, devices, bluetoothDevices, wirelessAps,
                   wirelessClients, log, i, last, prev, reports>>

AtRecord == pc = "parse" /\ i <= Len(devices)

Handled ==
    /\ last' = i
    /\ prev' = Snapshot
    /\ UNCHANGED <<family, devices, reports>>

\* case "BTLE"
ParseBluetooth ==
    /\ AtRecord
    /\ devices[i].type = JStr(S_BTLE)
    /\ LET r == ProcessBluetooth(bluetoothDevices, devices[i]) IN
          /\ bluetoothDevices' = r.store
          /\ log' = log \o r.warn
    /\ i' = i + 1
    /\ Handled
    /\ UNCHANGED <<wirelessAps, wirelessClients, pc>>

\* case "Wi-Fi AP"
ParseWirelessAp ==
    /\ AtRecord
    /\ devices[i].type = JStr(S_WiFiAP)
    /\ LET r == ProcessWirelessAp(wirelessAps, devices[i]) IN
          /\ wirelessAps' = r.store
          /\ log' = log \o r.warn
    /\ i' = i + 1
    /\ Handled
    /\ UNCHANGED <<bluetoothDevices, wirelessClients, pc>>

\* case "Wi-Fi Client"
ParseWirelessClient ==
    /\ AtRecord
    /\ devices[i].type = JStr(S_WiFiClient)
    /\ \E ssids \in SsidOrders(wirelessClients, devices[i]) :
          LET r == ProcessWirelessClient(wirelessClients, devices[i], ssids) IN
             /\ wirelessClients' = r.store
             /\ log' = log \o r.warn
    /\ i' = i + 1
    /\ Handled
    /\ UNCHANGED <<bluetoothDevices, wirelessAps, pc>>

Recognised(device) ==
    device.type \in {JStr(S_BTLE), JStr(S_WiFiAP), JStr(S_WiFiClient)}

\* case _ with a str type: the warning is built and logged, then `continue`.
ParseUnrecognised ==
    /\ AtRecord
    /\ ~Recognised(devices[i])
    /\ devices[i].type.k = "str"
    /\ log' = Append(log, WarnUnrecognised)
    /\ i' = i + 1
    /\ Handled
    /\ UNCHANGED <<bluetoothDevices, wirelessAps, wirelessClients, pc>>

\* device['kismet_device_base_type'] raises KeyError when the key is absent,
\* and in case _ the str + value concatenation raises TypeError when the value
\* is no str; nothing in parse() or main() catches either.
ParseRaises ==
    /\ AtRecord
    /\ devices[i].type.k # "str"
    /\ pc' = "crashed"
    /\ Handled
    /\ UNCHANGED <<bluetoothDevices, wirelessAps, wirelessClients, log, i>>

\* The loop is over: logger.debug("Parsing complete").
ParseComplete ==
    /\ pc = "parse"
    /\ i > Len(devices)
    /\ pc' = "parsed"
    /\ UNCHANGED <<family, devices, bluetoothDevices, wirelessAps,
                   wirelessClients, log, i, last, prev, reports>>

\* report(): _reportBluetooth, _reportWirelessAps, _reportWirelessClients in
\* turn, with an output directory that can be written to and files that may
\* be overwritten.  Each takes its dictionary's keys in their order.
Report ==
    /\ pc = "parsed"
    /\ \E bluetoothKeys \in ListsOf(DOMAIN bluetoothDevices) :
       \E apKeys \in ListsOf(DOMAIN wirelessAps) :
       \E clientKeys \in ListsOf(DOMAIN wirelessClients) :
          reports' = [bluetooth |-> BluetoothRows(bluetoothDevices, bluetoothKeys),
                      ap |-> ApRows(wirelessAps, apKeys),
                      client |-> ClientRows(wirelessClients, clientKeys)]
    /\ log' = log \o NothingToReport(bluetoothDevices, WarnNoBluetooth)
                  \o NothingToReport(wirelessAps, WarnNoAps)
                  \o NothingToReport(wirelessClients, WarnNoClients)
    /\ pc' = "reported"
    /\ last' = 0
    /\ UNCHANGED <<family, devices, bluetoothDevices, wirelessAps,
                   wirelessClients, i, prev>>

Next ==
    \/ AddFile
    \/ StartParse
    \/ ParseBluetooth
    \/ ParseWirelessAp
    \/ ParseWirelessClient
    \/ ParseUnrecognised
    \/ ParseRaises
    \/ ParseComplete
    \/ Report

Spec == Init /\ [][Next]_vars

\* ------------------------------------------------- vocabulary of the claims
Classes == {"bluetooth", "ap", "client"}

ClassOf(device) ==
    CASE device.type = JStr(S_BTLE) -> "bluetooth"
      [] device.type = JStr(S_WiFiAP) -> "ap"
      [] device.type = JStr(S_WiFiClient) -> "client"
      [] OTHER -> "none"

StoreOf(c) ==
    CASE c = "bluetooth" -> bluetoothDevices
      [] c = "ap" -> wirelessAps
      [] OTHER -> wirelessClients

PrevStoreOf(c) ==
    CASE c = "bluetooth" -> prev.bluetoothDevices
      [] c = "ap" -> prev.wirelessAps
      [] OTHER -> prev.wirelessClients

\* A recognised device passes extraction: no lookup or coercion raises and
\* the address is not empty.
Valid(device) ==
    /\ Recognised(device)
    /\ CASE ClassOf(device) = "bluetooth" -> ~BluetoothTryRaises(device)
         [] ClassOf(device) = "ap" -> ~ApTryRaises(device)
         [] OTHER -> ~ClientTryRaises(device)
    /\ Len(Mac(device)) > 0

\* The class-specific metadata of an entry, and of the record a device is
\* extracted to.
Meta(c, x) ==
    CASE c = "bluetooth" -> <<x.manufacturer, x.name>>
      [] c = "ap" -> <<x.manufacturer, x.essid, x.channel, x.auth>>
      [] OTHER -> <<x.manufacturer, x.bssid>>

MetaOf(device) ==
    CASE ClassOf(device) = "bluetooth" -> <<Manufacturer(device), Name(device)>>
      [] ClassOf(device) = "ap" ->
            <<Manufacturer(device), Essid(device), Channel(device), Auth(device)>>
      [] OTHER -> <<Manufacturer(device), Bssid(device)>>

\* The records parse() has handled that extract to address m of class c.
ValidIdx(c, m) ==
    {j \in 1..(i - 1) :
        /\ ClassOf(devices[j]) = c
        /\ Valid(devices[j])
        /\ Mac(devices[j]) = m}

MinOf(S) == CHOOSE x \in S : \A y \in S : x <= y
MaxOf(S) == CHOOSE x \in S : \A y \in S : x >= y

\* The record handled last, its class and its address.
R == devices[last]
RClass == ClassOf(R)
RMac == Mac(R)

\* The last step extracted R and found, or did not find, an entry for its address.
LastValid == last > 0 /\ pc # "crashed" /\ Valid(R)
LastMerge == LastValid /\ RMac \in DOMAIN PrevStoreOf(RClass)
LastInsert == LastValid /\ RMac \notin DOMAIN PrevStoreOf(RClass)

StoresUnchanged ==
    /\ bluetoothDevices = prev.bluetoothDevices
    /\ wirelessAps = prev.wirelessAps
    /\ wirelessClients = prev.wirelessClients

\* ---------------------------------------------------------------- claims
\* C1: every entry's firstTime is the minimum of the first timestamps, and its
\* lastTime the maximum of the last timestamps, of all the valid records of its
\* class and address handled so far, in whatever order they came; a merge
\* never narrows the range.
C1_TimeRangeIsMinMax ==
    \A c \in Classes : \A m \in DOMAIN StoreOf(c) :
        LET J == ValidIdx(c, m)
            e == StoreOf(c)[m]
        IN /\ J # {}
           /\ e.firstTime = MinOf({FirstTime(devices[j]) : j \in J})
           /\ e.lastTime = MaxOf({LastTime(devices[j]) : j \in J})
           /\ m \in DOMAIN PrevStoreOf(c) =>
                 /\ e.firstTime <= PrevStoreOf(c)[m].firstTime
                 /\ e.lastTime >= PrevStoreOf(c)[m].lastTime

\* A merge whose record starts earlier and ends later than the entry it meets.
C1_Witness ==
    /\ LastMerge
    /\ StoreOf(RClass)[RMac].firstTime < PrevStoreOf(RClass)[RMac].firstTime
    /\ StoreOf(RClass)[RMac].lastTime > PrevStoreOf(RClass)[RMac].lastTime

\* C3: an entry's metadata is that of the first valid record of its class and
\* address; a merge leaves it as it was and logs exactly one conflict warning
\* naming the address when the record's metadata differs, and none otherwise.
C3_FirstMetadataWins ==
    /\ \A c \in Classes : \A m \in DOMAIN StoreOf(c) :
          LET J == ValidIdx(c, m) IN
             /\ J # {}
             /\ Meta(c, StoreOf(c)[m]) = MetaOf(devices[MinOf(J)])
    /\ LastMerge =>
          LET c == RClass
              m == RMac
              old == Meta(c, PrevStoreOf(c)[m])
          IN /\ Meta(c, StoreOf(c)[m]) = old
             /\ log = prev.log \o
                   (IF MetaOf(R) # old THEN <<WarnConflict(m)>> ELSE <<>>)

\* The third record of a run contradicts the entry's metadata.
C3_Witness ==
    /\ LastMerge
    /\ last = 3
    /\ MetaOf(R) # Meta(RClass, PrevStoreOf(RClass)[RMac])
    /\ Len(log) = Len(prev.log) + 1

\* Two entries agree in every field, probedSsids taken as a set.
SameEntry(c, e1, e2) ==
    IF c = "client"
    THEN /\ [e1 EXCEPT !.probedSsids = <<>>] = [e2 EXCEPT !.probedSsids = <<>>]
         /\ Range(e1.probedSsids) = Range(e2.probedSsids)
    ELSE e1 = e2

\* C4: handling a valid record that was already handled earlier in the run
\* changes no field of its entry, no other entry and no store's size, and logs
\* no conflict warning when every earlier record of that address was this one.
C4_MergeIdempotent ==
    (LastValid /\ \E j \in 1..(last - 1) : devices[j] = R) =>
        /\ RMac \in DOMAIN PrevStoreOf(RClass)
        /\ \A c \in Classes :
              /\ DOMAIN StoreOf(c) = DOMAIN PrevStoreOf(c)
              /\ \A m \in DOMAIN StoreOf(c) :
                    IF c = RClass /\ m = RMac
                    THEN SameEntry(c, StoreOf(c)[m], PrevStoreOf(c)[m])
                    ELSE StoreOf(c)[m] = PrevStoreOf(c)[m]
        /\ (\A j \in ValidIdx(RClass, RMac) : devices[j] = R) => log = prev.log

\* A record is handled again after a different record of its address came between.
C4_Witness ==
    /\ LastValid
    /\ last = 3
    /\ devices[1] = R
    /\ devices[2] # R
    /\ Valid(devices[2])
    /\ ClassOf(devices[2]) = RClass
    /\ Mac(devices[2]) = RMac

\* C5: a client entry's probedSsids holds no element twice and is, as a set,
\* the union of the probedSsids of the valid records of its address; a merge
\* removes none.
C5_ProbedSsidsAccumulate ==
    \A m \in DOMAIN wirelessClients :
        LET l == wirelessClients[m].probedSsids IN
           /\ Cardinality(Range(l)) = Len(l)
           /\ Range(l) = UNION {Range(ProbedList(devices[j])) :
                                   j \in ValidIdx("client", m)}
           /\ m \in DOMAIN prev.wirelessClients =>
                 Range(prev.wirelessClients[m].probedSsids) \subseteq Range(l)

\* A merge brings an SSID the entry, which holds two, already had.
C5_Witness ==
    /\ LastMerge
    /\ RClass = "client"
    /\ Len(ProbedList(R)) = 1
    /\ Range(ProbedList(R))
          \subseteq Range(prev.wirelessClients[RMac].probedSsids)
    /\ Len(prev.wirelessClients[RMac].probedSsids) = 2
    /\ Len(wirelessClients[RMac].probedSsids) = 2

\* A required value is missing, or no int where a number is due.
Missing(v) == v.k = "absent"
NotInt(v) == v.k \notin {"int", "str"} \/ (v.k = "str" /\ ~IsIntLiteral(v.s))

\* A required field other than the address is missing or not coercible.
OtherFieldFault(device) ==
    \/ NotInt(device.first_time)
    \/ NotInt(device.last_time)
    \/ Missing(device.manuf)
    \/ /\ ClassOf(device) = "bluetooth"
       /\ Missing(device.name)
    \/ /\ ClassOf(device) = "ap"
       /\ \/ NotInt(device.channel)
          \/ Missing(device.crypt)
          \/ device.dot11.k # "obj"
          \/ device.dot11.beacon.k # "obj"
          \/ Missing(device.dot11.beacon.ssid)
    \/ /\ ClassOf(device) = "client"
       /\ \/ device.dot11.k # "obj"
          \/ Missing(device.dot11.last_bssid)

RequiredFieldFault(device) == Missing(device.macaddr) \/ OtherFieldFault(device)

IsInvalidWarning(w) ==
    w \in {WarnInvalidBluetooth, WarnInvalidAp, WarnInvalidClient, WarnNoMac}

\* C6: a record of a recognised class with a required field missing or not
\* coercible changes no store, logs one warning, and the loop goes on to the
\* next record.
C6_ExtractionAtomic ==
    (last > 0 /\ Recognised(R) /\ RequiredFieldFault(R)) =>
        /\ StoresUnchanged
        /\ Len(log) = Len(prev.log) + 1
        /\ SubSeq(log, 1, Len(prev.log)) = prev.log
        /\ IsInvalidWarning(log[Len(log)])
        /\ pc \in {"parse", "parsed"}
        /\ i = last + 1

\* Such a record comes second, after a record that was stored.
C6_Witness ==
    /\ last = 2
    /\ Recognised(R)
    /\ RequiredFieldFault(R)
    /\ \E c \in Classes : DOMAIN StoreOf(c) # {}

\* The signal a record reports: its max-signal as an integer, unless the type
\* reads "none" in any case or the structure is missing or malformed.
SignalUsable(device) ==
    /\ device.signal.k = "obj"
    /\ device.signal.type.k = "str"
    /\ Lower(device.signal.type.s) # S_none
    /\ ~NotInt(device.signal.max_signal)

ReportedSignal(device) ==
    IF SignalUsable(device) THEN PyInt(device.signal.max_signal) ELSE NoRssi

\* C2: in every class a merge of record N into entry E sets E's signal to N's
\* when |N's| < |E's| and leaves it otherwise.
C2_SignalSelection ==
    LastMerge =>
        LET n == ReportedSignal(R)
            e == PrevStoreOf(RClass)[RMac].rssi
        IN StoreOf(RClass)[RMac].rssi = (IF Abs(n) < Abs(e) THEN n ELSE e)

\* C7: in every class a record that is otherwise valid is stored whatever its
\* signal structure, and a new entry's signal is the integer max-signal the
\* record reports, or 5000 when the type is "none" or the structure is
\* missing or malformed.
C7_SignalExtraction ==
    LastValid =>
        /\ RMac \in DOMAIN StoreOf(RClass)
        /\ LastInsert => StoreOf(RClass)[RMac].rssi = ReportedSignal(R)

\* A defaultable field that is present and empty: the empty string or None.
\* (A key that is absent altogether is the missing required field of C6.)
EmptyValue(v) == v = JNull \/ v = JStr(S_Empty)

HasEmptyDefaultable(device) ==
    \/ EmptyValue(device.manuf)
    \/ ClassOf(device) = "bluetooth" /\ EmptyValue(device.name)
    \/ /\ ClassOf(device) = "ap"
       /\ EmptyValue(device.crypt) \/ EmptyValue(device.dot11.beacon.ssid)
    \/ ClassOf(device) = "client" /\ EmptyValue(device.dot11.last_bssid)

DefaultsIn(device, e) ==
    /\ EmptyValue(device.manuf) => e.manufacturer = S_Unknown
    /\ ClassOf(device) = "bluetooth" =>
          (EmptyValue(device.name) => e.name = S_Unknown)
    /\ ClassOf(device) = "ap" =>
          /\ EmptyValue(device.crypt) => e.auth = S_Unknown
          /\ EmptyValue(device.dot11.beacon.ssid) => e.essid = S_UnknownSSID
    /\ ClassOf(device) = "client" =>
          (EmptyValue(device.dot11.last_bssid) => e.bssid = S_Unknown)

\* C8: a record whose defaultable field is empty is stored, and a new entry
\* holds the field's default ("Unknown", "Unknown SSID" for essid).
C8_DefaultsApplied ==
    (LastValid /\ HasEmptyDefaultable(R)) =>
        /\ RMac \in DOMAIN StoreOf(RClass)
        /\ LastInsert => DefaultsIn(R, StoreOf(RClass)[RMac])

\* C9: a record of a recognised class whose address is empty, None or absent,
\* all else being well-formed, changes no store and logs the no-address
\* warning; so every key of every store is a non-empty uppercased address that
\* an input record carried.
C9_NoAddressIsInvalid ==
    /\ (/\ last > 0
        /\ Recognised(R)
        /\ R.macaddr \in {Absent, JNull, JStr(S_Empty)}
        /\ ~OtherFieldFault(R)) =>
          /\ StoresUnchanged
          /\ log = Append(prev.log, WarnNoMac)
    /\ \A c \in Classes : \A m \in DOMAIN StoreOf(c) :
          /\ Len(m) > 0
          /\ m = Upper(m)
          /\ \E j \in 1..Len(devices) :
                devices[j].macaddr.k = "str" /\ Upper(devices[j].macaddr.s) = m

\* parse() run on a list of records, from the given stores (list(set(...))
\* taken in some order).
RECURSIVE ParseAll(_, _)
ParseAll(stores, ds) ==
    IF Len(ds) = 0 THEN stores
    ELSE LET d == Head(ds)
             c == ClassOf(d)
             next ==
                 CASE c = "bluetooth" ->
                        [stores EXCEPT !.bluetoothDevices =
                            ProcessBluetooth(stores.bluetoothDevices, d).store]
                   [] c = "ap" ->
                        [stores EXCEPT !.wirelessAps =
                            ProcessWirelessAp(stores.wirelessAps, d).store]
                   [] c = "client" ->
                        [stores EXCEPT !.wirelessClients =
                            ProcessWirelessClient(stores.wirelessClients, d,
                                CHOOSE l \in SsidOrders(stores.wirelessClients, d) : TRUE).store]
                   [] OTHER -> stores
         IN ParseAll(next, Tail(ds))

NoStores == [bluetoothDevices |-> <<>>, wirelessAps |-> <<>>, wirelessClients |-> <<>>]

SameStores(s) ==
    /\ bluetoothDevices = s.bluetoothDevices
    /\ wirelessAps = s.wirelessAps
    /\ DOMAIN wirelessClients = DOMAIN s.wirelessClients
    /\ \A m \in DOMAIN wirelessClients :
          SameEntry("client", wirelessClients[m], s.wirelessClients[m])

\* C10: a record whose type is unrecognised or missing logs a warning, changes
\* no store and does not stop the loop: the records after it are handled, and
\* the final stores are those of the input without it.
C10_UnrecognisedTypeSkipped ==
    /\ (last > 0 /\ ~Recognised(R)) =>
          /\ pc # "crashed"
          /\ i = last + 1
          /\ StoresUnchanged
          /\ log = Append(prev.log, WarnUnrecognised)
    /\ pc = "parsed" => SameStores(ParseAll(NoStores, SelectSeq(devices, Recognised)))

\* Some entry has met a second valid record of its address: a merge has run.
Merged == \E c \in Classes : \E m \in DOMAIN StoreOf(c) : Cardinality(ValidIdx(c, m)) > 1

\* C11: once a merge has run, every entry of every store has
\* firstTime <= lastTime, whatever records passed extraction, those whose own
\* first timestamp is later than their last included.
C11_FirstNotAfterLast ==
    Merged =>
       \A c \in Classes : \A m \in DOMAIN StoreOf(c) :
           StoreOf(c)[m].firstTime <= StoreOf(c)[m].lastTime

\* The text of a row's last cell and of its address.
LastField(x) == PyStr(x[Len(x)])
Address(x) == PyStr(x[1])

\* Each report that is written has one row per entry of its store, whose last
\* cell reads "Unknown" when the entry's |rssi| > 255 and the integer otherwise.
RowsRenderStore ==
    \A c \in Classes :
        /\ Len(reports[c]) = Cardinality(DOMAIN StoreOf(c))
        /\ \A m \in DOMAIN StoreOf(c) : \E k \in 1..Len(reports[c]) :
              /\ Address(reports[c][k]) = m
              /\ LastField(reports[c][k]) =
                    IF Abs(StoreOf(c)[m].rssi) > 255 THEN S_Unknown
                    ELSE IntToStr(StoreOf(c)[m].rssi)

\* The rows of every report ascend strictly by last field, `between`, address.
RowsAscend(between) ==
    \A c \in Classes : \A a, b \in 1..Len(reports[c]) :
        a < b => StrLess(LastField(reports[c][a]) \o between \o Address(reports[c][a]),
                         LastField(reports[c][b]) \o between \o Address(reports[c][b]))

\* C12 as stated: the rows of each class report are in ascending
\* lexicographic order of the rendered last field ("Unknown" when
\* |rssi| > 255, else the integer as text) concatenated with the address; of
\* any two entries, the row with the smaller concatenation comes first.
C12_RowsSortedByConcatenation ==
    pc = "reported" => RowsRenderStore /\ RowsAscend(<<>>)

\* C12 amended: the rows of each class report are in ascending order, by code
\* point, of the rendered last field, one space, and the address.
C12_RowsSortedBySpacedKey ==
    pc = "reported" => RowsRenderStore /\ RowsAscend(<<32>>)

\* A report in which a row's last field is a proper prefix of a later
\* row's: the space decides their order.
C12_Witness ==
    /\ pc = "reported"
    /\ \E c \in Classes : \E a, b \in 1..Len(reports[c]) :
          /\ a < b
          /\ StrLess(LastField(reports[c][a]), LastField(reports[c][b]))
          /\ Len(LastField(reports[c][a])) < Len(LastField(reports[c][b]))
          /\ SubSeq(LastField(reports[c][b]), 1, Len(LastField(reports[c][a])))
                = LastField(reports[c][a])
          /\ ~StrLess(LastField(reports[c][a]) \o Address(reports[c][a]),
                      LastField(reports[c][b]) \o Address(reports[c][b]))

====
